---------------------------- MODULE Spec2Model ----------------------------
(***************************************************************************)
(* RedisClient: a wrapper around an ioredis connection and a redlock lock  *)
(* manager.  The module models                                             *)
(*   - lib/configUtils: configValidator, parseConfig and the retryStrategy *)
(*     closure it returns;                                                 *)
(*   - RedisClient: the constructor, protectedMutation (with handleUnlock),*)
(*     the event handlers, their registration and removal, and shutdown.   *)
(* The store (Redis) and the two libraries are the environment: a lease    *)
(* per resource key which the store grants to one holder and drops when    *)
(* its ttl elapses, commands that may fail, and events that may be emitted.*)
(***************************************************************************)
EXTENDS Integers, Sequences, FiniteSets, TLC

VARIABLES
    \* ---- construction (lib/configUtils, RedisClient.constructor)
    rawConfig,      \* the config object handed to new RedisClient(config)
    ctor,           \* "pending" | "constructed" | "threw"
    config,         \* this.config, NoConfig until parseConfig returned
    redis,          \* TRUE once new Redis(...) opened the store connection
    lockManager,    \* TRUE once new Redlock(...) was created
    listeners,      \* event name -> set of listener functions registered
    strategyCall,   \* the last retryStrategy(retries) call and its result
    \* ---- protectedMutation calls
    pc,             \* call -> position in protectedMutation
    args,           \* call -> [resourceKey, handleFailedLockRelease]
    outcome,        \* call -> the returned promise: pending, fulfilled, rejected
    lockAttempts,   \* call -> attempts lockManager.lock made against the store
    lockFailure,    \* call -> why the attempt failed: "none" | "held" | "store"
    unlockCalls,    \* call -> number of lock.unlock() calls
    unlockFailed,   \* call -> number of lock.unlock() calls that rejected
    sideChannel,    \* call -> sequence of failed-release reports made
    captured,       \* call -> the local `result` or `err` of the try/catch
    mutation,       \* call -> what became of mutationFn: "notRun" | "running"
                    \*         | "returned" | "threw" | "rejected"
    \* ---- the store
    lease,          \* resourceKey -> the call holding the lease, or NoHolder
    expired,        \* call -> the ttl of its lease elapsed between its
                    \*         acquire and the end of its release
    \* ---- connection lifecycle
    shutdownState,  \* "running" | "quitting" | "closed" | "failed"
    shutdownPromise, \* the promise shutdown() returned, NoPromise before
    emitted,        \* number of events emitted so far
    log,            \* sequence of logger calls made by handlers and shutdown
    handled,        \* handlers invoked after shutdown() was called
    uncaught,       \* TRUE once a handler threw into the emitter
    \* ---- the store connection
    connState,      \* "none" | "connecting" | "ready" | "reconnecting" | "end"
    retryAttempts,  \* failed attempts since the connection was last ready
    \* ---- the key-value data
    kv,             \* key -> the text the store holds, or Nil
    lastWrite,      \* key -> the last write made to it through the client
    getResult       \* the last get call, the last write to its key before
                    \* it, and what its promise settled as

ctorVars == <<rawConfig, ctor, config, redis, lockManager, listeners, strategyCall>>
callVars == <<pc, args, outcome, lockAttempts, lockFailure, unlockCalls,
              unlockFailed, sideChannel, captured, mutation>>
storeVars == <<lease, expired>>
eventVars == <<shutdownState, shutdownPromise, emitted, log, handled, uncaught>>
connVars == <<connState, retryAttempts>>
dataVars == <<kv, lastWrite, getResult>>
lifeVars == <<eventVars, connVars, dataVars>>
vars == <<ctorVars, callVars, storeVars, lifeVars>>

---------------------------------------------------------------------------
\* Bounds of the model.

\* retryStrategy is called with retries in 0..MaxRetriesArg
MaxRetriesArg == 40
\* number of protectedMutation calls
NumCalls == 2
\* consecutive failed connection attempts followed
MaxAttempts == 12
\* number of events the connection and the lock manager emit
MaxEvents == 3

Min(a, b) == IF a < b THEN a ELSE b

---------------------------------------------------------------------------
\* JavaScript values of the raw configuration.
\*   t = "undef"  the key is absent          t = "null"  null
\*   t = "int"    an integer number v        t = "frac"  a non-integer number
\*   t = "str"    a string (for REDIS_URL: with the parts a URI parser sees)

Undef == [t |-> "undef", v |-> 0]
Null == [t |-> "null", v |-> 0]
Int_(n) == [t |-> "int", v |-> n]
Frac == [t |-> "frac", v |-> 0]
NaNString == [t |-> "str", v |-> 0]

Url(wf, scheme, hostname, port) ==
    [t |-> "str", wellformed |-> wf, scheme |-> scheme,
     hostname |-> hostname, port |-> port]
NoUrl == [t |-> "undef", wellformed |-> FALSE, scheme |-> "",
          hostname |-> "", port |-> "null"]

\* 'redis://localhost:6793' is the README's URL
UrlInputs ==
    { NoUrl,
      Url(TRUE, "redis", "localhost", "6793"),
      Url(TRUE, "redis", "example.com", "null"),
      Url(TRUE, "http", "localhost", "6793"),
      Url(TRUE, "", "localhost", "null"),
      Url(FALSE, "redis", "", "null") }

RetriesInputs == { Undef, Int_(-1), Int_(0), Int_(1), Int_(5), Frac, NaNString }
DelayInputs == { Undef, Null, Int_(-100), Int_(0), Int_(1), Int_(250), Int_(3000), Frac }
WorkersInputs == { Undef, Int_(-2), Int_(0), Int_(4) }

RawConfigs ==
    [ REDIS_URL : UrlInputs,
      REDIS_CONNECTION_MAX_RETRIES : RetriesInputs,
      REDIS_RETRY_DELAY_MS : DelayInputs,
      REDIS_WORKERS : WorkersInputs ]

ReadmeConfig ==
    [ REDIS_URL |-> Url(TRUE, "redis", "localhost", "6793"),
      REDIS_CONNECTION_MAX_RETRIES |-> Undef,
      REDIS_RETRY_DELAY_MS |-> Undef,
      REDIS_WORKERS |-> Undef ]

NoConfig == [valid |-> FALSE]

---------------------------------------------------------------------------
\* lib/configUtils

\* joi.string().uri({ scheme: 'redis' }).required()
UrlRule(x) == x.t = "str" /\ x.wellformed /\ x.scheme = "redis"

\* a validator with min(0) in place of min(1)
MaxRetriesRuleMinZero(x) == x.t = "undef" \/ (x.t = "int" /\ x.v >= 0)

\* joi.number().integer().min(1).optional(): an absent key passes
MaxRetriesRule(x) == x.t = "undef" \/ (x.t = "int" /\ x.v >= 1)

\* joi.number().integer().optional(): any integer, no lower limit
IntegerRule(x) == x.t = "undef" \/ x.t = "int"

\* a validator whose defaults are never applied
WithDefaultDropped(x, d) == x

\* .default(d): the default replaces an absent key
WithDefault(x, d) == IF x.t = "undef" THEN d ELSE x

\* configValidator.validate(_config): { error, value }
configValidator(c) ==
    LET ok == /\ UrlRule(c.REDIS_URL)
              /\ MaxRetriesRule(c.REDIS_CONNECTION_MAX_RETRIES)
              /\ IntegerRule(c.REDIS_RETRY_DELAY_MS)
              /\ IntegerRule(c.REDIS_WORKERS)
    IN  [ error |-> ~ok,
          value |-> [ REDIS_URL |-> c.REDIS_URL,
                      REDIS_CONNECTION_MAX_RETRIES |->
                          WithDefault(c.REDIS_CONNECTION_MAX_RETRIES, Int_(10)),
                      REDIS_RETRY_DELAY_MS |->
                          WithDefault(c.REDIS_RETRY_DELAY_MS, Null),
                      REDIS_WORKERS |-> WithDefault(c.REDIS_WORKERS, Int_(3)) ] ]

\* JavaScript truthiness of a validated number-or-null: null and 0 are falsy
Truthy(x) == x.t = "int" /\ x.v # 0

\* a strategy with Math.max in place of Math.min
retryStrategyMax(value, retries) ==
    IF Truthy(value.REDIS_RETRY_DELAY_MS)
    THEN value.REDIS_RETRY_DELAY_MS.v
    ELSE IF retries * 50 > 2000 THEN retries * 50 ELSE 2000

\* the closure parseConfig returns: (retries) => { ... }
retryStrategy(value, retries) ==
    IF Truthy(value.REDIS_RETRY_DELAY_MS)
    THEN value.REDIS_RETRY_DELAY_MS.v
    ELSE Min(retries * 50, 2000)

\* parseConfig(_config): throws on a validation error, else the RedisConfig.
\* The retryStrategy closure is kept as the validated value it closes over.
parseConfig(c) ==
    LET r == configValidator(c)
    IN  IF r.error
        THEN [threw |-> TRUE, config |-> NoConfig]
        ELSE [threw |-> FALSE,
              config |-> [ valid |-> TRUE,
                           uri |-> r.value.REDIS_URL,
                           hostname |-> r.value.REDIS_URL.hostname,
                           port |-> r.value.REDIS_URL.port,
                           retryStrategy |-> r.value,
                           maxRetriesPerRequest |->
                               r.value.REDIS_CONNECTION_MAX_RETRIES.v,
                           workerCount |-> r.value.REDIS_WORKERS.v ]]

---------------------------------------------------------------------------
\* RedisClient: construction and listeners

Events == {"connect", "reconnecting", "error", "clientError"}

\* the handler method an event is wired to
HandlerOf(e) ==
    CASE e = "connect" -> "connectHandler"
      [] e = "reconnecting" -> "reconnectingHandler"
      [] e = "error" -> "errorHandler"
      [] e = "clientError" -> "lockClientErrorHandler"

\* this.<handler>: the method itself, one function object per class
Method(h) == [fn |-> h, bound |-> FALSE]
\* this.<handler>.bind(this): a new function object, distinct from the method
Bind(f) == [fn |-> f.fn, bound |-> TRUE]

NoListeners == [e \in Events |-> {}]

\* emitter.on(e, f) for each of the four events, with the bound handlers
registerRedisEventHandlers(ls) ==
    [e \in Events |-> ls[e] \cup {Bind(Method(HandlerOf(e)))}]

\* emitter.removeListener(e, f): removes the listener that is f itself
unregisterRedisEventHandlers(ls) ==
    [e \in Events |-> ls[e] \ {Method(HandlerOf(e))}]

\* the constructor: parseConfig first; a throw leaves the rest undone
Constructor(c) ==
    LET p == parseConfig(c)
    IN  IF p.threw
        THEN [ctor |-> "threw", config |-> NoConfig, redis |-> FALSE,
              lockManager |-> FALSE, listeners |-> NoListeners]
        ELSE [ctor |-> "constructed", config |-> p.config, redis |-> TRUE,
              lockManager |-> TRUE,
              listeners |-> registerRedisEventHandlers(NoListeners)]

NoStrategyCall == [called |-> FALSE, retries |-> 0, delay |-> 0]

---------------------------------------------------------------------------
\* RedisClient.protectedMutation

Calls == 1..NumCalls
Keys == {"R", "S"}
NoHolder == 0

\* handleFailedLockRelease: the default null, or a function.  Only the
\* .catch handler of lock.unlock() reads it: a call's value is "unread"
\* until then, and is drawn when the handler first reads it.
Callbacks == {"null", "fn"}
NoArgs == [resourceKey |-> "R", handleFailedLockRelease |-> "unread"]

\* how an invocation of mutationFn ends: it resolves with its value, throws
\* before it returns a promise, or returns a promise that rejects
MutationEnds == {"returned", "threw", "rejected"}

Pending == [state |-> "pending", value |-> "none"]
Fulfilled(v) == [state |-> "fulfilled", value |-> v]
Rejected(v) == [state |-> "rejected", value |-> v]

\* what mutationFn produced: its value, or the error it raised
MutationOutcome(m) == IF m = "returned" THEN "result" ELSE "mutationError"

\* new Redlock([this.redis], { retryCount: 0 })
RetryCount == 0

\* a lock manager created with retryCount: 1
ShouldRetryOnce(attempts) == attempts <= 1

\* the lock manager tries again after a failed attempt while the attempts
\* made so far do not exceed retryCount
ShouldRetry(attempts) == attempts <= RetryCount

\* A step of protectedMutation, from one await to the next:
\*   pc        where the call waits next ("done": the promise settled)
\*   outcome   the state of the returned promise
\*   captured  the value of `result` / `err`
\*   mutation  what became of mutationFn
\*   unlock    1 when the step called lock.unlock() (through handleUnlock)
\*   report    the failed-release reports the step made

\* the lock acquired inside the try block: its rejection lands in the catch
\* block, which calls handleUnlock and returns the error
OnLockRejectedInsideTry(a, threw) ==
    [pc |-> "unlockCatch", outcome |-> Pending, captured |-> "LockError",
     mutation |-> "notRun", unlock |-> 1, report |-> <<>>]

\* the rejection of lockManager.lock swallowed: mutationFn runs without
\* the lease
OnLockRejectedRunsAnyway(a, threw) ==
    [pc |-> "mutation", outcome |-> Pending, captured |-> "none",
     mutation |-> "running", unlock |-> 0, report |-> <<>>]

\* line 59: the await of lockManager.lock rejects, outside the try block
OnLockRejected(a, threw) ==
    [pc |-> "done", outcome |-> Rejected("LockError"), captured |-> "none",
     mutation |-> "notRun", unlock |-> 0, report |-> <<>>]

\* a guard that calls mutationFn without awaiting it and releases at once
OnLockResolvedNoAwait(a, threw) ==
    IF threw
    THEN [pc |-> "unlockCatch", outcome |-> Pending,
          captured |-> MutationOutcome("threw"), mutation |-> "threw",
          unlock |-> 1, report |-> <<>>]
    ELSE [pc |-> "mutation", outcome |-> Pending, captured |-> "none",
          mutation |-> "running", unlock |-> 1, report |-> <<>>]

\* lines 71-72 and 75-76: the lock is held, mutationFn() is invoked; a
\* synchronous throw lands in the catch block, which calls handleUnlock
OnLockResolved(a, threw) ==
    IF threw
    THEN [pc |-> "unlockCatch", outcome |-> Pending,
          captured |-> MutationOutcome("threw"), mutation |-> "threw",
          unlock |-> 1, report |-> <<>>]
    ELSE [pc |-> "mutation", outcome |-> Pending, captured |-> "none",
          mutation |-> "running", unlock |-> 0, report |-> <<>>]

\* a guard that returns mutationFn's outcome without releasing the lock
OnMutationSettledNoRelease(a, m) ==
    [pc |-> "done", outcome |-> Fulfilled(MutationOutcome(m)),
     captured |-> MutationOutcome(m), mutation |-> m, unlock |-> 0,
     report |-> <<>>]

\* lines 72-73 and 75-76: the promise of mutationFn settles, and the try
\* block or the catch block calls handleUnlock
OnMutationSettled(a, m) ==
    [pc |-> IF m = "returned" THEN "unlockTry" ELSE "unlockCatch",
     outcome |-> Pending, captured |-> MutationOutcome(m), mutation |-> m,
     unlock |-> 1, report |-> <<>>]

\* lines 62-67: the .catch handler reports through the callback if one was
\* given, else through logger.error
ReportVia(a) ==
    IF a.handleFailedLockRelease # "null" THEN "callback" ELSE "logger"
SideError(a) ==
    IF a.handleFailedLockRelease # "null" THEN "callbackError" ELSE "loggerError"

\* lines 60-69 and 73-78: lock.unlock() settles.  failed: it rejected;
\* threw: the callback, or logger.error, threw inside the .catch handler,
\* so that handleUnlock itself rejects
OnUnlockSettled(a, at, cap, m, failed, threw) ==
    LET report == IF failed
                  THEN << [via |-> ReportVia(a), err |-> "releaseError",
                           threw |-> threw] >>
                  ELSE <<>>
    IN  IF ~(failed /\ threw)
        THEN \* handleUnlock resolved: return result / return err
             [pc |-> "done", outcome |-> Fulfilled(cap), captured |-> cap,
              mutation |-> m, unlock |-> 0, report |-> report]
        ELSE IF at = "unlockTry"
        THEN \* line 73 throws into the catch block: handleUnlock again
             [pc |-> "unlockCatch", outcome |-> Pending,
              captured |-> SideError(a), mutation |-> m, unlock |-> 1,
              report |-> report]
        ELSE \* line 76 throws out of the catch block
             [pc |-> "done", outcome |-> Rejected(SideError(a)),
              captured |-> cap, mutation |-> m, unlock |-> 0,
              report |-> report]

\* a call is between its acquire and the end of its release
InWindow(q) == pc[q] \in {"mutation", "unlockTry", "unlockCatch"}

\* the effect of a step of call p on the call's variables
Apply(p, s) ==
    /\ pc' = [pc EXCEPT ![p] = s.pc]
    /\ outcome' = [outcome EXCEPT ![p] = s.outcome]
    /\ captured' = [captured EXCEPT ![p] = s.captured]
    /\ mutation' = [mutation EXCEPT ![p] = s.mutation]
    /\ unlockCalls' = [unlockCalls EXCEPT ![p] = @ + s.unlock]
    /\ sideChannel' = [sideChannel EXCEPT ![p] = @ \o s.report]

\* protectedMutation(resourceKey, ttl, mutationFn, handleFailedLockRelease)
\* is called: it calls lockManager.lock and awaits it.  Calls are numbered
\* in the order in which they are made, and "R" names the first call's key.
Call(p, key) ==
    /\ ctor = "constructed"
    /\ pc[p] = "idle"
    /\ \A q \in Calls : q < p => pc[q] # "idle"
    /\ p = 1 => key = "R"
    /\ pc' = [pc EXCEPT ![p] = "lock"]
    /\ args' = [args EXCEPT ![p].resourceKey = key]
    /\ UNCHANGED <<outcome, lockAttempts, lockFailure, unlockCalls,
                   unlockFailed, sideChannel, captured, mutation>>
    /\ UNCHANGED <<ctorVars, storeVars, lifeVars>>

\* lockManager.lock makes an attempt against the store; the store grants
\* the lease when it answers and no holder has it.  A granted lock resumes
\* protectedMutation, which invokes mutationFn (threw: it throws at once).
LockAttempt(p, storeOk, threw) ==
    LET a == args[p]
        granted == storeOk /\ lease[a.resourceKey] = NoHolder
        n == lockAttempts[p] + 1
    IN  /\ pc[p] = "lock"
        /\ threw => granted
        /\ lockAttempts' = [lockAttempts EXCEPT ![p] = n]
        /\ UNCHANGED <<args, unlockFailed, expired>>
        /\ UNCHANGED <<ctorVars, lifeVars>>
        /\ IF granted
           THEN /\ lease' = [lease EXCEPT ![a.resourceKey] = p]
                /\ UNCHANGED lockFailure
                /\ Apply(p, OnLockResolved(a, threw))
           ELSE /\ UNCHANGED lease
                /\ lockFailure' = [lockFailure EXCEPT ![p] =
                        IF lease[a.resourceKey] # NoHolder THEN "held" ELSE "store"]
                /\ IF ShouldRetry(n)
                   THEN UNCHANGED <<pc, outcome, captured, unlockCalls,
                                    mutation, sideChannel>>
                   ELSE Apply(p, OnLockRejected(a, threw))

\* the promise mutationFn returned settles
MutationSettles(p, m) ==
    /\ pc[p] = "mutation"
    /\ m \in {"returned", "rejected"}
    /\ Apply(p, OnMutationSettled(args[p], m))
    /\ UNCHANGED <<args, lockAttempts, lockFailure, unlockFailed>>
    /\ UNCHANGED <<ctorVars, storeVars, lifeVars>>

\* lock.unlock() settles: the store drops the lease if the call still has
\* it, or the release fails; then the .catch handler and what follows it
UnlockSettles(p, failed, cb, threw) ==
    LET a == IF failed THEN [args[p] EXCEPT !.handleFailedLockRelease = cb]
                       ELSE args[p]
    IN  /\ pc[p] \in {"unlockTry", "unlockCatch"}
        /\ threw => failed
        /\ args[p].handleFailedLockRelease = "unread"
               => (cb = "null" \/ failed)
        /\ args[p].handleFailedLockRelease # "unread"
               => cb = args[p].handleFailedLockRelease
        /\ args' = [args EXCEPT ![p] = a]
        /\ lease' = IF ~failed /\ lease[a.resourceKey] = p
                    THEN [lease EXCEPT ![a.resourceKey] = NoHolder]
                    ELSE lease
        /\ unlockFailed' = [unlockFailed EXCEPT ![p] = @ + (IF failed THEN 1 ELSE 0)]
        /\ Apply(p, OnUnlockSettled(a, pc[p], captured[p], mutation[p],
                                    failed, threw))
        /\ UNCHANGED <<lockAttempts, lockFailure, expired>>
        /\ UNCHANGED <<ctorVars, lifeVars>>

\* the ttl of a lease elapses: the store drops it
Expire(k) ==
    /\ lease[k] # NoHolder
    /\ expired' = [expired EXCEPT ![lease[k]] = @ \/ InWindow(lease[k])]
    /\ lease' = [lease EXCEPT ![k] = NoHolder]
    /\ UNCHANGED <<ctorVars, callVars, lifeVars>>

---------------------------------------------------------------------------
\* RedisClient: event handlers and shutdown

LogEntry(level, msg, arg) == [level |-> level, msg |-> msg, arg |-> arg]

\* What a handler does when it is invoked: the logger calls it makes, and
\* whether it throws.
\* connectHandler reads `config.redis.uri`, but no `config` is in scope in
\* RedisClient.js (the constructor's parameter is not visible here, and the
\* field is this.config): evaluating the template literal throws a
\* ReferenceError before logger.info is called.
connectHandler(arg) == [logs |-> <<>>, threw |-> TRUE]

reconnectingHandler(retryIn) ==
    [logs |-> << LogEntry("warn", "reconnecting", retryIn) >>, threw |-> FALSE]

errorHandler(err) ==
    [logs |-> << LogEntry("error", "err", err),
                 LogEntry("error", "Redis connection error", 0) >>,
     threw |-> FALSE]

lockClientErrorHandler(err) ==
    [logs |-> << LogEntry("error", "err", err),
                 LogEntry("error", "redlock error", 0) >>,
     threw |-> FALSE]

Invoke(h, arg) ==
    CASE h = "connectHandler" -> connectHandler(arg)
      [] h = "reconnectingHandler" -> reconnectingHandler(arg)
      [] h = "errorHandler" -> errorHandler(arg)
      [] h = "lockClientErrorHandler" -> lockClientErrorHandler(arg)

\* The connection or the lock manager emits event e with argument arg: the
\* listeners registered for e are invoked.  A "reconnecting" event carries
\* the delay the retry strategy chose.
Emit(e, n) ==
    LET arg == IF e = "reconnecting"
               THEN retryStrategy(config.retryStrategy, n)
               ELSE n
        fs == listeners[e]
        r == Invoke(HandlerOf(e), arg)
    IN  /\ ctor = "constructed"
        /\ shutdownState \in {"running", "quitting", "failed"}
        /\ emitted < MaxEvents
        /\ emitted' = emitted + 1
        /\ IF fs = {}
           THEN UNCHANGED <<log, handled, uncaught>>
           ELSE /\ log' = log \o r.logs
                /\ uncaught' = (uncaught \/ r.threw)
                /\ handled' = IF shutdownState = "running" THEN handled
                              ELSE handled \cup {HandlerOf(e)}
        /\ UNCHANGED <<shutdownState, shutdownPromise>>
        /\ UNCHANGED <<ctorVars, callVars, storeVars>>
        /\ UNCHANGED <<connVars, dataVars>>

\* shutdown() has not been called: it has returned no promise
NoPromise == [state |-> "none", value |-> "none"]

\* a shutdown() that calls lockManager.quit(cb) and returns without waiting
\* for cb
shutdownReturnsResolved == Fulfilled("undefined")

\* line 143: `return new Promise((resolve, reject) => ...)`: the promise
\* shutdown() returns is pending until the executor's callback settles it
shutdownReturns == Pending

\* lines 144-147: err ? reject(err) : resolve(this.logger.warn(...)); the
\* logger's warn returns undefined
quitCallback(err) ==
    IF err THEN Rejected("closeError") ELSE Fulfilled("undefined")

\* shutdown(): unregisterRedisEventHandlers(), then lockManager.quit(cb)
Shutdown ==
    /\ ctor = "constructed"
    /\ shutdownState = "running"
    /\ listeners' = unregisterRedisEventHandlers(listeners)
    /\ shutdownState' = "quitting"
    /\ shutdownPromise' = shutdownReturns
    /\ UNCHANGED <<rawConfig, ctor, config, redis, lockManager, strategyCall>>
    /\ UNCHANGED <<emitted, log, handled, uncaught>>
    /\ UNCHANGED <<callVars, storeVars>>
    /\ UNCHANGED <<connVars, dataVars>>

\* the callback of lockManager.quit fires: err ? reject(err)
\*   : resolve(this.logger.warn('Connection to redis closed'))
QuitSettles(err) ==
    /\ shutdownState = "quitting"
    /\ shutdownPromise' = quitCallback(err)
    /\ IF err
       THEN /\ shutdownState' = "failed"
            /\ UNCHANGED log
       ELSE /\ shutdownState' = "closed"
            /\ log' = Append(log, LogEntry("warn", "Connection to redis closed", 0))
    /\ UNCHANGED <<emitted, handled, uncaught>>
    /\ UNCHANGED <<ctorVars, callVars, storeVars>>
    /\ UNCHANGED <<connVars, dataVars>>

---------------------------------------------------------------------------
\* RedisClient: get, set and del

\* JSON values.  A boolean is carried in n as 0 or 1; the members of an
\* object are kept in insertion order, each with its key in s and its value
\* as the one element of items.
JNull == [k |-> "null", n |-> 0, s |-> "", items |-> <<>>]
JBool(b) == [k |-> "bool", n |-> IF b THEN 1 ELSE 0, s |-> "", items |-> <<>>]
JNum(n) == [k |-> "num", n |-> n, s |-> "", items |-> <<>>]
JStr(str) == [k |-> "str", n |-> 0, s |-> str, items |-> <<>>]
JArr(items) == [k |-> "arr", n |-> 0, s |-> "", items |-> items]
JObj(members) == [k |-> "obj", n |-> 0, s |-> "", items |-> members]
Member(key, v) == [k |-> "member", n |-> 0, s |-> key, items |-> <<v>>]

\* JSON text is a sequence of tokens: punctuation and the literals null, true
\* and false by their spelling in c, a number by its sign and decimal digits,
\* a string literal by its characters, and anything that is no JSON token as
\* a "word".
Tok(c) == [c |-> c, neg |-> FALSE, d |-> <<>>, s |-> ""]
StrTok(str) == [c |-> "str", neg |-> FALSE, d |-> <<>>, s |-> str]
Word(str) == [c |-> "word", neg |-> FALSE, d |-> <<>>, s |-> str]

RECURSIVE Digits(_)
Digits(n) == IF n < 10 THEN <<n>> ELSE Append(Digits(n \div 10), n % 10)

RECURSIVE FromDigits(_)
FromDigits(d) ==
    IF d = <<>> THEN 0
    ELSE FromDigits(SubSeq(d, 1, Len(d) - 1)) * 10 + d[Len(d)]

NumTok(n) == [c |-> "num", neg |-> n < 0,
              d |-> Digits(IF n < 0 THEN 0 - n ELSE n), s |-> ""]

\* JSON.stringify(value) for a JSON value
RECURSIVE JSONstringify(_)
RECURSIVE StringifyList(_)
JSONstringify(v) ==
    CASE v.k = "null" -> << Tok("null") >>
      [] v.k = "bool" -> << Tok(IF v.n = 1 THEN "true" ELSE "false") >>
      [] v.k = "num" -> << NumTok(v.n) >>
      [] v.k = "str" -> << StrTok(v.s) >>
      [] v.k = "arr" -> << Tok("[") >> \o StringifyList(v.items) \o << Tok("]") >>
      [] v.k = "obj" -> << Tok("{") >> \o StringifyList(v.items) \o << Tok("}") >>
      [] v.k = "member" ->
             << StrTok(v.s), Tok(":") >> \o JSONstringify(v.items[1])
\* the elements of an array or the members of an object, comma-separated
StringifyList(items) ==
    IF items = <<>> THEN <<>>
    ELSE IF Len(items) = 1 THEN JSONstringify(items[1])
    ELSE JSONstringify(items[1]) \o << Tok(",") >> \o StringifyList(Tail(items))

\* The parser of JSON.parse: each operator returns whether it succeeded, the
\* value it read and the tokens left.
ParseError == [ok |-> FALSE, val |-> JNull, rest |-> <<>>]
Parsed(v, rest) == [ok |-> TRUE, val |-> v, rest |-> rest]

RECURSIVE ParseValue(_)
RECURSIVE ParseItems(_, _)
RECURSIVE ParseMembers(_, _)
ParseValue(toks) ==
    IF toks = <<>> THEN ParseError
    ELSE LET t == Head(toks)
             r == Tail(toks)
         IN  CASE t.c = "null" -> Parsed(JNull, r)
               [] t.c = "true" -> Parsed(JBool(TRUE), r)
               [] t.c = "false" -> Parsed(JBool(FALSE), r)
               [] t.c = "num" ->
                      Parsed(JNum(IF t.neg THEN 0 - FromDigits(t.d)
                                  ELSE FromDigits(t.d)), r)
               [] t.c = "str" -> Parsed(JStr(t.s), r)
               [] t.c = "[" ->
                      IF r # <<>> /\ Head(r).c = "]"
                      THEN Parsed(JArr(<<>>), Tail(r))
                      ELSE ParseItems(r, <<>>)
               [] t.c = "{" ->
                      IF r # <<>> /\ Head(r).c = "}"
                      THEN Parsed(JObj(<<>>), Tail(r))
                      ELSE ParseMembers(r, <<>>)
               [] OTHER -> ParseError
\* the elements of an array after "[" or ",", up to the closing "]"
ParseItems(toks, acc) ==
    LET v == ParseValue(toks)
    IN  IF ~v.ok \/ v.rest = <<>> THEN ParseError
        ELSE IF Head(v.rest).c = ","
        THEN ParseItems(Tail(v.rest), Append(acc, v.val))
        ELSE IF Head(v.rest).c = "]"
        THEN Parsed(JArr(Append(acc, v.val)), Tail(v.rest))
        ELSE ParseError
\* the members of an object after "{" or ",", up to the closing "}"
ParseMembers(toks, acc) ==
    IF Len(toks) < 2 \/ toks[1].c # "str" \/ toks[2].c # ":" THEN ParseError
    ELSE LET v == ParseValue(Tail(Tail(toks)))
             m == Member(toks[1].s, v.val)
         IN  IF ~v.ok \/ v.rest = <<>> THEN ParseError
             ELSE IF Head(v.rest).c = ","
             THEN ParseMembers(Tail(v.rest), Append(acc, m))
             ELSE IF Head(v.rest).c = "}"
             THEN Parsed(JObj(Append(acc, m)), Tail(v.rest))
             ELSE ParseError

\* the store holds no value for the key: redis.get resolves with null
Nil == << Word("nil") >>

\* JSON.parse converts its argument to a string first: null becomes 'null'
ToText(res) == IF res = Nil THEN << Tok("null") >> ELSE res

\* What a get call settles as: a JavaScript value (null and the JSON values),
\* a string by its text, or a rejection.
ReturnsValue(v) == [state |-> "fulfilled", kind |-> "value", value |-> v,
                    text |-> <<>>]
ReturnsText(t) == [state |-> "fulfilled", kind |-> "text", value |-> JNull,
                   text |-> t]
Throws(e) == [state |-> "rejected", kind |-> e, value |-> JNull, text |-> <<>>]

\* JSON.parse(text): the value, or a SyntaxError
JSONparse(text) ==
    LET r == ParseValue(ToText(text))
    IN  IF r.ok /\ r.rest = <<>> THEN ReturnsValue(r.val)
        ELSE Throws("SyntaxError")

\* a get that returns the stored text whatever json is
getNeverParses(res, json) ==
    IF res = Nil THEN ReturnsValue(JNull) ELSE ReturnsText(res)

\* lines 172-173 of get(key, json = true), res being what redis.get resolved
\* with: if (json) return JSON.parse(res); return res;
get(res, json) ==
    IF json THEN JSONparse(res)
    ELSE IF res = Nil THEN ReturnsValue(JNull) ELSE ReturnsText(res)

\* line 183 of set(key, value, json = true): the text handed to redis.set
set(value, json) == IF json THEN JSONstringify(value) ELSE value

DataKeys == {"someKey", "someKey2"}

\* the values set is called with when json is true; the README's are among
\* them
JsonValues ==
    { JNull, JBool(TRUE), JBool(FALSE), JNum(0), JNum(-12), JNum(305),
      JStr(""), JStr("Just a string!"), JStr("null"),
      JArr(<<>>), JArr(<< JNum(1), JStr("a"), JNull >>),
      JObj(<<>>),
      JObj(<< Member("value", JStr("I will become a JSON string!")) >>),
      JObj(<< Member("v", JNum(1)),
              Member("w", JArr(<< JObj(<< Member("x", JBool(FALSE)) >>),
                                  JArr(<<>>) >>)) >>) }

\* the strings set is called with when json is false
RawTexts ==
    { << Word("Just a string!") >>, << Tok("{"), StrTok("v") >>,
      << NumTok(7) >> }

NeverWritten == [how |-> "never", value |-> JNull, text |-> <<>>]
NoGet == [called |-> FALSE, key |-> "", json |-> TRUE,
          after |-> NeverWritten, result |-> Throws("none")]

\* set(key, value): JSON.stringify(value) is written to the store
Set(key, value) ==
    /\ ctor = "constructed"
    /\ kv' = [kv EXCEPT ![key] = set(value, TRUE)]
    /\ lastWrite' = [lastWrite EXCEPT
                        ![key] = [how |-> "json", value |-> value, text |-> <<>>]]
    /\ UNCHANGED getResult
    /\ UNCHANGED <<ctorVars, callVars, storeVars, eventVars, connVars>>

\* set(key, text, false): the string is written as it is
SetRaw(key, text) ==
    /\ ctor = "constructed"
    /\ kv' = [kv EXCEPT ![key] = set(text, FALSE)]
    /\ lastWrite' = [lastWrite EXCEPT
                        ![key] = [how |-> "raw", value |-> JNull, text |-> text]]
    /\ UNCHANGED getResult
    /\ UNCHANGED <<ctorVars, callVars, storeVars, eventVars, connVars>>

\* del(key)
Del(key) ==
    /\ ctor = "constructed"
    /\ kv' = [kv EXCEPT ![key] = Nil]
    /\ lastWrite' = [lastWrite EXCEPT
                        ![key] = [how |-> "del", value |-> JNull, text |-> <<>>]]
    /\ UNCHANGED getResult
    /\ UNCHANGED <<ctorVars, callVars, storeVars, eventVars, connVars>>

\* get(key, json).  ok: redis.get resolved; otherwise the await at line 171
\* throws the command's error
Get(key, json, ok) ==
    /\ ctor = "constructed"
    /\ getResult' = [called |-> TRUE, key |-> key, json |-> json,
                     after |-> lastWrite[key],
                     result |-> IF ok THEN get(kv[key], json)
                                ELSE Throws("commandError")]
    /\ UNCHANGED <<kv, lastWrite>>
    /\ UNCHANGED <<ctorVars, callVars, storeVars, eventVars, connVars>>

---------------------------------------------------------------------------
\* The store connection opened by new Redis(uri, { retryStrategy,
\* maxRetriesPerRequest }).  The connection library is not part of the
\* repository; what is modelled is its use of the retryStrategy option: after
\* every lost or failed connection it calls retryStrategy(attempts) and
\* reconnects after the returned delay when that is a number, and gives up
\* otherwise.  maxRetriesPerRequest is not read by this decision.  The events
\* the connection emits on the way are modelled by Emit.

\* new Redis(...) starts connecting at once
ConnectionOf(opened) == IF opened THEN "connecting" ELSE "none"

\* the connection's decision on what retryStrategy returned
ReconnectAfter(delay) == delay \in Int

\* the connection is established: the attempt counter starts again
ConnectSucceeds ==
    /\ connState = "connecting"
    /\ connState' = "ready"
    /\ retryAttempts' = 0
    /\ UNCHANGED <<ctorVars, callVars, storeVars, eventVars, dataVars>>

\* the connection is lost, or the attempt to connect fails
ConnectionCloses ==
    LET attempts == retryAttempts + 1
        delay == retryStrategy(config.retryStrategy, attempts)
    IN  /\ connState \in {"connecting", "ready"}
        /\ retryAttempts < MaxAttempts
        /\ retryAttempts' = attempts
        /\ connState' = IF ReconnectAfter(delay) THEN "reconnecting" ELSE "end"
        /\ strategyCall' = [called |-> TRUE, retries |-> attempts,
                            delay |-> delay]
        /\ UNCHANGED <<rawConfig, ctor, config, redis, lockManager, listeners>>
        /\ UNCHANGED <<callVars, storeVars, eventVars, dataVars>>

\* the delay the strategy returned has passed: the connection tries again
Reconnect ==
    /\ connState = "reconnecting"
    /\ connState' = "connecting"
    /\ UNCHANGED retryAttempts
    /\ UNCHANGED <<ctorVars, callVars, storeVars, eventVars, dataVars>>

---------------------------------------------------------------------------
\* Construction and the retry strategy as actions

\* new RedisClient(rawConfig)
Construct ==
    /\ ctor = "pending"
    /\ ctor' = Constructor(rawConfig).ctor
    /\ config' = Constructor(rawConfig).config
    /\ redis' = Constructor(rawConfig).redis
    /\ lockManager' = Constructor(rawConfig).lockManager
    /\ listeners' = Constructor(rawConfig).listeners
    /\ connState' = ConnectionOf(Constructor(rawConfig).redis)
    /\ UNCHANGED <<rawConfig, strategyCall, retryAttempts>>
    /\ UNCHANGED <<callVars, storeVars, eventVars, dataVars>>

\* the connection calls config.retryStrategy(retries)
CallRetryStrategy(retries) ==
    /\ ctor = "constructed"
    /\ strategyCall' = [called |-> TRUE, retries |-> retries,
                        delay |-> retryStrategy(config.retryStrategy, retries)]
    /\ UNCHANGED <<rawConfig, ctor, config, redis, lockManager, listeners>>
    /\ UNCHANGED <<callVars, storeVars, lifeVars>>

---------------------------------------------------------------------------
\* Specifications

InitCalls ==
    /\ pc = [p \in Calls |-> "idle"]
    /\ args = [p \in Calls |-> NoArgs]
    /\ outcome = [p \in Calls |-> Pending]
    /\ lockAttempts = [p \in Calls |-> 0]
    /\ lockFailure = [p \in Calls |-> "none"]
    /\ unlockCalls = [p \in Calls |-> 0]
    /\ unlockFailed = [p \in Calls |-> 0]
    /\ sideChannel = [p \in Calls |-> <<>>]
    /\ captured = [p \in Calls |-> "none"]
    /\ mutation = [p \in Calls |-> "notRun"]
    /\ lease = [k \in Keys |-> NoHolder]
    /\ expired = [p \in Calls |-> FALSE]

InitLife ==
    /\ shutdownState = "running"
    /\ shutdownPromise = NoPromise
    /\ emitted = 0
    /\ log = <<>>
    /\ handled = {}
    /\ uncaught = FALSE
    /\ kv = [k \in DataKeys |-> Nil]
    /\ lastWrite = [k \in DataKeys |-> NeverWritten]
    /\ getResult = NoGet

\* the state after new RedisClient(c)
InitConstructed(c) ==
    /\ rawConfig = c
    /\ ctor = Constructor(c).ctor
    /\ config = Constructor(c).config
    /\ redis = Constructor(c).redis
    /\ lockManager = Constructor(c).lockManager
    /\ listeners = Constructor(c).listeners
    /\ strategyCall = NoStrategyCall
    /\ connState = ConnectionOf(Constructor(c).redis)
    /\ retryAttempts = 0

\* protectedMutation calls on a client built from the README's config
Init == InitConstructed(ReadmeConfig) /\ InitCalls /\ InitLife

Next ==
    \/ \E p \in Calls, key \in Keys : Call(p, key)
    \/ \E p \in Calls, storeOk \in BOOLEAN, threw \in BOOLEAN :
           LockAttempt(p, storeOk, threw)
    \/ \E p \in Calls, m \in MutationEnds : MutationSettles(p, m)
    \/ \E p \in Calls, failed \in BOOLEAN, cb \in Callbacks, threw \in BOOLEAN :
           UnlockSettles(p, failed, cb, threw)
    \/ \E k \in Keys : Expire(k)

Spec == Init /\ [][Next]_vars

\* construction from any raw configuration, and calls of its retry strategy
InitConfig ==
    /\ rawConfig \in RawConfigs
    /\ ctor = "pending"
    /\ config = NoConfig
    /\ redis = FALSE
    /\ lockManager = FALSE
    /\ listeners = NoListeners
    /\ strategyCall = NoStrategyCall
    /\ connState = ConnectionOf(FALSE)
    /\ retryAttempts = 0
    /\ InitCalls
    /\ InitLife

NextConfig ==
    \/ Construct
    \/ \E n \in 0..MaxRetriesArg : CallRetryStrategy(n)

SpecConfig == InitConfig /\ [][NextConfig]_vars

\* events and shutdown on a client built from the README's config
NextLifecycle ==
    \/ \E e \in Events, n \in 1..MaxEvents : Emit(e, n)
    \/ Shutdown
    \/ \E err \in BOOLEAN : QuitSettles(err)

SpecLifecycle == Init /\ [][NextLifecycle]_vars

\* the store connection of a client built from any valid configuration
InitConnection ==
    /\ \E c \in RawConfigs : ~parseConfig(c).threw /\ InitConstructed(c)
    /\ InitCalls
    /\ InitLife

NextConnection ==
    \/ ConnectSucceeds
    \/ ConnectionCloses
    \/ Reconnect

SpecConnection == InitConnection /\ [][NextConnection]_vars

\* get, set and del on a client built from the README's config
NextData ==
    \/ \E key \in DataKeys, value \in JsonValues : Set(key, value)
    \/ \E key \in DataKeys, text \in RawTexts : SetRaw(key, text)
    \/ \E key \in DataKeys : Del(key)
    \/ \E key \in DataKeys, json \in BOOLEAN, ok \in BOOLEAN : Get(key, json, ok)

SpecData == Init /\ [][NextData]_vars

---------------------------------------------------------------------------
\* Properties of protectedMutation (checked under Spec)

\* lockManager.lock rejected for call p
AcquisitionFailed(p) == pc[p] # "lock" /\ lockFailure[p] # "none"
\* lockManager.lock resolved for call p
Acquired(p) == mutation[p] # "notRun"
SameKey(p, q) == p # q /\ pc[p] # "idle" /\ pc[q] # "idle"
                 /\ args[p].resourceKey = args[q].resourceKey

\* C1: every call whose lock acquisition succeeded ends with its promise
\* fulfilled, never rejected, and the value is what mutationFn returned or
\* the error mutationFn raised.
C1_FulfilledWithMutationOutcome ==
    \A p \in Calls :
        Acquired(p) =>
            /\ outcome[p].state # "rejected"
            /\ pc[p] = "done" =>
                   outcome[p] = Fulfilled(MutationOutcome(mutation[p]))

\* C2: when lock acquisition fails the call rejects with the acquisition
\* error; mutationFn is never executed, no release is attempted, and neither
\* the failed-release callback nor logger.error is invoked by the call.
C2_AcquisitionFailureRejects ==
    \A p \in Calls :
        AcquisitionFailed(p) =>
            /\ pc[p] = "done"
            /\ outcome[p] = Rejected("LockError")
            /\ mutation[p] = "notRun"
            /\ unlockCalls[p] = 0
            /\ unlockFailed[p] = 0
            /\ sideChannel[p] = <<>>

\* a call has rejected because the store failed to answer its attempt, and
\* another call on the same key has acquired the lease and finished
C2_Witness ==
    \E p, q \in Calls :
        /\ SameKey(p, q)
        /\ pc[p] = "done" /\ lockFailure[p] = "store"
        /\ outcome[p].state = "rejected"
        /\ pc[q] = "done" /\ Acquired(q)

\* C3: every call makes at most one acquire attempt, and every call whose
\* acquisition succeeded makes exactly one release attempt, whatever
\* mutationFn, the release and the failed-release callback or logger do.
C3_OneAcquireOneRelease ==
    \A p \in Calls :
        /\ lockAttempts[p] <= 1
        /\ unlockCalls[p] <= 1
        /\ (Acquired(p) /\ pc[p] = "done") => unlockCalls[p] = 1

\* C4: when the release fails, the release error is reported through the
\* callback if one was given and through logger.error otherwise, and the
\* call still fulfills with mutationFn's own outcome.
C4_ReleaseFailureKeepsOutcome ==
    \A p \in Calls :
        unlockFailed[p] > 0 =>
            /\ outcome[p].state # "rejected"
            /\ Len(sideChannel[p]) = unlockFailed[p]
            /\ \A i \in 1..Len(sideChannel[p]) :
                   /\ sideChannel[p][i].err = "releaseError"
                   /\ sideChannel[p][i].via =
                          (IF args[p].handleFailedLockRelease = "fn"
                           THEN "callback" ELSE "logger")
            /\ pc[p] = "done" =>
                   outcome[p] = Fulfilled(MutationOutcome(mutation[p]))

\* C5 as stated: for two calls on the same resourceKey, mutationFn of one
\* never runs while the other is between its acquire and its release, in
\* every interleaving, also when the ttl of a lease elapses early.
C5_NoOverlap ==
    \A p, q \in Calls :
        SameKey(p, q) => ~(pc[p] = "mutation" /\ InWindow(q))

\* C5 amended: two calls on the same resourceKey are both between acquire
\* and release, so that their mutation functions can overlap, only when the
\* ttl of the lease of one of them elapsed before its release ended.
C5_OverlapOnlyAfterExpiry ==
    \A p, q \in Calls :
        (SameKey(p, q) /\ InWindow(p) /\ InWindow(q)) =>
            (expired[p] \/ expired[q])

\* the winner's mutationFn is still running with its lease expired, and the
\* other call's mutationFn runs
C5_Witness ==
    \E p, q \in Calls :
        /\ SameKey(p, q)
        /\ pc[p] = "mutation" /\ pc[q] = "mutation"
        /\ expired[q] /\ lease[args[p].resourceKey] = p

\* C6: acquisition is one attempt with no retry and no waiting: a call on
\* a key leased by another holder rejects with the acquisition error after
\* exactly one attempt, and never holds the lease afterwards, also once the
\* lease was released or expired.
C6_SingleAttempt ==
    \A p \in Calls :
        /\ lockAttempts[p] <= 1
        /\ lockFailure[p] = "held" =>
               /\ pc[p] = "done"
               /\ outcome[p] = Rejected("LockError")
               /\ lockAttempts[p] = 1
               /\ mutation[p] = "notRun"
               /\ \A k \in Keys : lease[k] # p

\* a call was refused because another held the lease; that holder has
\* released it since and the key is free, and the refused call stays refused
C6_Witness ==
    \E p, q \in Calls :
        /\ SameKey(p, q)
        /\ lockFailure[p] = "held" /\ pc[p] = "done"
        /\ pc[q] = "done" /\ Acquired(q) /\ unlockFailed[q] = 0
        /\ lease[args[p].resourceKey] = NoHolder

\* C16: the ttl is the only bound on the exclusion of a mutation that does
\* not settle: while mutationFn is running the call attempts no release and
\* its promise stays pending; the lease leaves the call only by the ttl
\* elapsing, after which the key is free for, or held by, another call,
\* while mutationFn goes on running.
C16_TtlOnlyBound ==
    \A p \in Calls :
        pc[p] = "mutation" =>
            /\ mutation[p] = "running"
            /\ unlockCalls[p] = 0
            /\ sideChannel[p] = <<>>
            /\ outcome[p] = Pending
            /\ lease[args[p].resourceKey] # p => expired[p]
            /\ expired[p] => lease[args[p].resourceKey] # p

\* the mutation of one call is still running after its ttl elapsed, and
\* another call on the same key has since acquired the lease, run its
\* mutation and fulfilled
C16_Witness ==
    \E p, q \in Calls :
        /\ SameKey(p, q)
        /\ pc[p] = "mutation" /\ expired[p] /\ outcome[p] = Pending
        /\ pc[q] = "done" /\ Acquired(q) /\ outcome[q].state = "fulfilled"

\* mutationFn of call p has settled
MutationSettled(p) == mutation[p] \in MutationEnds

\* C19: inside one call the release starts only after mutationFn has
\* settled, and the promise settles only after the release attempt and the
\* handling of its failure have settled; so a call that fulfilled after a
\* release that succeeded holds the lease of no key, and a later call on the
\* same key is not refused on account of it.
C19_ReleaseBetweenMutationAndSettle ==
    \A p \in Calls :
        /\ unlockCalls[p] > 0 => MutationSettled(p)
        /\ pc[p] \in {"unlockTry", "unlockCatch"} =>
               /\ MutationSettled(p)
               /\ unlockCalls[p] > 0
        /\ outcome[p] # Pending => pc[p] = "done"
        /\ (pc[p] = "done" /\ Acquired(p)) =>
               /\ unlockCalls[p] > 0
               /\ Len(sideChannel[p]) = unlockFailed[p]
        /\ (pc[p] = "done" /\ outcome[p].state = "fulfilled"
            /\ unlockFailed[p] = 0) =>
               \A k \in Keys : lease[k] # p

\* a call fulfilled after a release that succeeded within its ttl, and the
\* next call on the same key holds the lease and runs its mutation
C19_Witness ==
    \E p, q \in Calls :
        /\ SameKey(p, q) /\ p < q
        /\ pc[p] = "done" /\ outcome[p] = Fulfilled("result")
        /\ unlockFailed[p] = 0 /\ ~expired[p]
        /\ pc[q] = "mutation" /\ lease[args[q].resourceKey] = q

\* C20: the failed-release side channel fires only on a failed release: in
\* every call the callback (or logger.error when none was given) is invoked
\* at most once, only after a release attempt of that call failed, and never
\* when the release succeeded or the acquisition failed.
C20_SideChannelOnlyOnFailedRelease ==
    \A p \in Calls :
        /\ Len(sideChannel[p]) <= 1
        /\ sideChannel[p] # <<>> => unlockFailed[p] > 0
        /\ AcquisitionFailed(p) => sideChannel[p] = <<>>

---------------------------------------------------------------------------
\* Properties of the configuration (checked under SpecConfig)

\* C7: with no fixed retry delay configured, the retry strategy returns
\* min(attempt * 50, 2000) for every attempt count 0..40.
C7_ComputedBackoff ==
    (strategyCall.called /\ rawConfig.REDIS_RETRY_DELAY_MS.t = "undef") =>
        strategyCall.delay =
            (IF strategyCall.retries * 50 <= 2000
             THEN strategyCall.retries * 50 ELSE 2000)

\* the strategy of a configuration without a fixed delay was called with 7
C7_Witness ==
    /\ strategyCall.called
    /\ rawConfig.REDIS_RETRY_DELAY_MS.t = "undef"
    /\ strategyCall.retries = 7
    /\ strategyCall.delay = 350

\* C8: with a fixed retry delay D configured, for every integer D the
\* validation accepts and every attempt count, the strategy returns D.
C8_FixedDelayReturned ==
    (strategyCall.called /\ rawConfig.REDIS_RETRY_DELAY_MS.t = "int") =>
        strategyCall.delay = rawConfig.REDIS_RETRY_DELAY_MS.v

\* the raw configuration is invalid in one of the ways C9 names
InvalidConfig(c) ==
    \/ c.REDIS_URL.t = "undef"
    \/ ~c.REDIS_URL.wellformed
    \/ c.REDIS_URL.scheme # "redis"
    \/ (c.REDIS_CONNECTION_MAX_RETRIES.t = "int"
        /\ c.REDIS_CONNECTION_MAX_RETRIES.v < 1)

\* C9: for an invalid configuration (URL missing, malformed or without the
\* redis scheme, or a retry count below 1) parseConfig fails and returns no
\* configuration, and the constructor fails before the connection is
\* opened, the lock manager created or a listener registered.
C9_InvalidConfigFails ==
    InvalidConfig(rawConfig) =>
        /\ parseConfig(rawConfig).threw
        /\ parseConfig(rawConfig).config = NoConfig
        /\ ctor # "pending" =>
               /\ ctor = "threw"
               /\ config = NoConfig
               /\ ~redis
               /\ ~lockManager
               /\ \A e \in Events : listeners[e] = {}

\* the constructor ran on a configuration whose only fault is a retry
\* count of 0
C9_Witness ==
    /\ ctor = "threw"
    /\ UrlRule(rawConfig.REDIS_URL)
    /\ rawConfig.REDIS_CONNECTION_MAX_RETRIES = Int_(0)
    /\ IntegerRule(rawConfig.REDIS_RETRY_DELAY_MS)
    /\ IntegerRule(rawConfig.REDIS_WORKERS)

\* the raw configuration holds a valid URL and nothing else
OnlyUrl(c) ==
    /\ UrlRule(c.REDIS_URL)
    /\ c.REDIS_CONNECTION_MAX_RETRIES = Undef
    /\ c.REDIS_RETRY_DELAY_MS = Undef
    /\ c.REDIS_WORKERS = Undef

\* C14: a configuration that holds only a valid URL resolves with a retry
\* limit of 10, a worker count of 3 and no fixed retry delay, so that the
\* strategy returns the computed backoff; the hostname and port are those of
\* the URL, and resolving the same raw configuration again yields the same
\* configuration as the one the client holds.
C14_DefaultsFromUrlOnly ==
    (OnlyUrl(rawConfig) /\ ctor # "pending") =>
        /\ ctor = "constructed"
        /\ config.maxRetriesPerRequest = 10
        /\ config.workerCount = 3
        /\ config.retryStrategy.REDIS_RETRY_DELAY_MS = Null
        /\ config.hostname = rawConfig.REDIS_URL.hostname
        /\ config.port = rawConfig.REDIS_URL.port
        /\ config = parseConfig(rawConfig).config
        /\ strategyCall.called =>
               strategyCall.delay = Min(strategyCall.retries * 50, 2000)

\* a client was built from the README's configuration, and its strategy was
\* called with 40
C14_Witness ==
    /\ ctor = "constructed"
    /\ rawConfig = ReadmeConfig
    /\ strategyCall.called
    /\ strategyCall.retries = 40
    /\ strategyCall.delay = 2000

\* C17: for every configuration the validation accepts and every attempt
\* count, the retry strategy returns a non-negative integer delay that does
\* not decrease from one attempt count to the next, and that never exceeds
\* 2000 when no fixed delay is configured.
C17_DelayNonNegativeMonotone ==
    strategyCall.called =>
        /\ strategyCall.delay \in Nat
        /\ strategyCall.delay <=
               retryStrategy(config.retryStrategy, strategyCall.retries + 1)
        /\ rawConfig.REDIS_RETRY_DELAY_MS.t = "undef" =>
               strategyCall.delay <= 2000

\* C18: a worker count is accepted only if it is a positive integer: a
\* configuration whose REDIS_WORKERS is zero or negative fails validation,
\* and the constructor called with it throws and builds no client.
C18_WorkerCountPositive ==
    (/\ rawConfig.REDIS_WORKERS.t = "int"
     /\ rawConfig.REDIS_WORKERS.v < 1
     /\ ctor # "pending") =>
        /\ configValidator(rawConfig).error
        /\ ctor = "threw"
        /\ config = NoConfig

---------------------------------------------------------------------------
\* Properties of the connection lifecycle (checked under SpecLifecycle)

\* C10: shutdown() removes the connect, reconnecting, error and clientError
\* handlers before it starts closing the connection, so that once shutdown()
\* was called no handler is invoked for any event emitted during or after
\* the teardown.
C10_HandlersRemovedBeforeClose ==
    /\ shutdownState # "running" => \A e \in Events : listeners[e] = {}
    /\ handled = {}

\* C11: the promise shutdown() returns settles only when the close callback
\* of the lock manager's connection has fired: it is pending while the close
\* is in progress, fulfilled exactly when the close succeeded, and rejected
\* with the close error exactly when the close failed.
C11_ShutdownSettlesWithClose ==
    /\ shutdownState = "running" => shutdownPromise = NoPromise
    /\ shutdownState = "quitting" => shutdownPromise = Pending
    /\ shutdownState = "closed" => shutdownPromise.state = "fulfilled"
    /\ shutdownState = "failed" => shutdownPromise = Rejected("closeError")

\* the close failed after an event was emitted during the teardown, and the
\* promise of shutdown() is rejected
C11_Witness ==
    /\ shutdownState = "failed"
    /\ shutdownPromise.state = "rejected"
    /\ emitted > 0

\* C13: every lifecycle event is handled by logging and nothing else: a
\* connect event adds an info entry, a reconnecting event a warn entry that
\* carries the delay, an error or clientError event an error entry that
\* carries the error, and no handler throws.
C13_HandlersOnlyLog ==
    [][\A e \in Events, n \in 1..MaxEvents :
          (Emit(e, n) /\ listeners[e] # {}) =>
              LET added == SubSeq(log', Len(log) + 1, Len(log'))
                  arg == IF e = "reconnecting"
                         THEN retryStrategy(config.retryStrategy, n) ELSE n
                  level == CASE e = "connect" -> "info"
                             [] e = "reconnecting" -> "warn"
                             [] OTHER -> "error"
              IN  /\ uncaught' = uncaught
                  /\ added # <<>>
                  /\ \A i \in 1..Len(added) : added[i].level = level
                  /\ e # "connect" =>
                         \E i \in 1..Len(added) : added[i].arg = arg
      ]_vars

---------------------------------------------------------------------------
\* Properties of the store connection (checked under SpecConnection)

\* C12: reconnection is bounded by maxConnectionRetries: the connection never
\* makes more consecutive failed attempts than that, and once it has made
\* that many it has stopped retrying.
C12_ReconnectionBounded ==
    /\ retryAttempts <= config.maxRetriesPerRequest
    /\ retryAttempts = config.maxRetriesPerRequest => connState = "end"

---------------------------------------------------------------------------
\* Properties of get and set (checked under SpecData)

\* redis.get resolved for the last get call
GetAnswered == getResult.called /\ getResult.result.kind # "commandError"

\* C15: when the last write to a key before a get was set(k, v) with a JSON
\* value v, the get(k) returns a value equal to v and a get(k, false) returns the JSON
\* text of v; a get of a key that was never set returns null.
C15_JsonRoundTrip ==
    GetAnswered =>
        LET w == getResult.after
            r == getResult.result
        IN  /\ (w.how = "json" /\ getResult.json) =>
                   /\ r.state = "fulfilled" /\ r.kind = "value"
                   /\ r.value = w.value
            /\ (w.how = "json" /\ ~getResult.json) =>
                   /\ r.state = "fulfilled" /\ r.kind = "text"
                   /\ r.text = JSONstringify(w.value)
            /\ w.how = "never" =>
                   /\ r.state = "fulfilled" /\ r.kind = "value"
                   /\ r.value = JNull

\* the README's object was set under someKey and read back by get(someKey)
\* while someKey2 was never set
C15_Witness ==
    /\ GetAnswered
    /\ getResult.key = "someKey" /\ getResult.json
    /\ getResult.after.how = "json"
    /\ getResult.after.value =
           JObj(<< Member("value", JStr("I will become a JSON string!")) >>)
    /\ getResult.result.value = getResult.after.value
    /\ lastWrite["someKey2"].how = "never"

=============================================================================
